---- MODULE Spec2Model ----
(***************************************************************************)
(* The e-commerce sample server: the product, order and upload route       *)
(* handlers over the two nedb collections and the upload directory.        *)
(*                                                                         *)
(* Strings the code inspects (names, search patterns, file names, ISO      *)
(* timestamps) are sequences of one-character strings, so that matching,   *)
(* ordering and concatenation are computed as the code computes them.      *)
(* Store identifiers are opaque strings in the code; the model writes them *)
(* as the numbers 1..MaxId, a number standing for the string's rank in the *)
(* order in which the _id index enumerates the collection.                 *)
(***************************************************************************)
EXTENDS Integers, Sequences, FiniteSets, TLC

\* ------------------------------------------------------------------ bounds
MaxId    == 2      \* identifiers the store can hand out (per collection)
MaxPage  == 2      \* largest page number requested
MaxSize  == 2      \* largest page size requested
MaxQty   == 2      \* largest quantity of an order's first item
MaxNow   == 2      \* largest clock reading (milliseconds)

Ids == 1..MaxId

VARIABLES
    products,   \* db.products: _id -> stored document
    orders,     \* db.orders:   _id -> stored document
    files,      \* data/uploads: file name -> content
    now,        \* the clock read by Date.now() and new Date()
    resp,       \* the response on its way to the client (NoResp: none)
    created,    \* what the client holds of its product creations: id -> posted body
    uploaded,   \* what the client holds of its uploads: file name -> contents it sent
    handlers    \* handler runs suspended at an await: request -> its locals

vars == <<products, orders, files, now, resp, created, uploaded, handlers>>

NoResp == [op |-> "none"]

\* JavaScript's undefined, as an element of an array
Undefined == [type |-> "undefined"]

\* ------------------------------------------------------- objects and text
\* obj[k] = v on a copy of obj
Ext(obj, k, v) == [x \in DOMAIN obj \cup {k} |-> IF x = k THEN v ELSE obj[x]]

\* { ...a, ...b }
Spread(a, b) == [x \in DOMAIN a \cup DOMAIN b |-> IF x \in DOMAIN b THEN b[x] ELSE a[x]]

\* the object without key k
Without(obj, k) == [x \in DOMAIN obj \ {k} |-> obj[x]]

EmptyObj == [x \in {} |-> 0]

\* UTF-16 code unit of the characters the model uses
Code(c) ==
    CASE c = "(" -> 40 [] c = "-" -> 45 [] c = "." -> 46 [] c = "/" -> 47
      [] c = "0" -> 48 [] c = "1" -> 49 [] c = "2" -> 50 [] c = "3" -> 51
      [] c = "4" -> 52 [] c = "5" -> 53 [] c = "6" -> 54 [] c = "7" -> 55
      [] c = "8" -> 56 [] c = "9" -> 57
      [] c = "A" -> 65 [] c = "B" -> 66 [] c = "a" -> 97 [] c = "b" -> 98
      [] OTHER -> 120

ToLower(c) == IF c = "A" THEN "a" ELSE IF c = "B" THEN "b" ELSE c

\* a < b on JavaScript strings: -1, 0 or 1
RECURSIVE CompareStrings(_, _)
CompareStrings(a, b) ==
    IF a = << >> /\ b = << >> THEN 0
    ELSE IF a = << >> THEN 0 - 1
    ELSE IF b = << >> THEN 1
    ELSE IF Code(Head(a)) < Code(Head(b)) THEN 0 - 1
    ELSE IF Code(Head(a)) > Code(Head(b)) THEN 1
    ELSE CompareStrings(Tail(a), Tail(b))

\* ------------------------------------------------------------ nedb (store)
\* value of a document field as compareThings sees it
GetDotValue(doc, key) ==
    IF key \notin DOMAIN doc THEN [t |-> "undefined"]
    ELSE IF key \in {"price", "totalAmount"} THEN [t |-> "number", v |-> doc[key]]
    ELSE [t |-> "string", v |-> doc[key]]

\* model.compareThings: undefined first, then numbers, then strings
CompareThings(a, b) ==
    IF a.t = "undefined" THEN (IF b.t = "undefined" THEN 0 ELSE 0 - 1)
    ELSE IF b.t = "undefined" THEN 1
    ELSE IF a.t = "number" THEN
        (IF b.t = "number"
           THEN (IF a.v < b.v THEN 0 - 1 ELSE IF a.v > b.v THEN 1 ELSE 0)
           ELSE 0 - 1)
    ELSE IF b.t = "number" THEN 1
    ELSE CompareStrings(a.v, b.v)

\* one character of a pattern against one character of the text, flag 'i';
\* "." is the one metacharacter the model's patterns use
MatchChar(p, c) == p = "." \/ ToLower(p) = ToLower(c)

\* new RegExp(pattern, 'i') throws a SyntaxError on an unbalanced "("
ValidRegExp(pattern) == \A i \in 1..Len(pattern) : pattern[i] # "("

\* regex.test(text) for a pattern of literals and "."
RegExpTest(pattern, text) ==
    \E start \in 1..(Len(text) - Len(pattern) + 1) :
        \A j \in 1..Len(pattern) : MatchChar(pattern[j], text[start + j - 1])

\* one clause { field: regex } of a $or list: a field that is no string never matches
MatchRegexClause(doc, clause) ==
    /\ clause.field \in DOMAIN doc
    /\ RegExpTest(clause.regex, doc[clause.field])

\* model.match: every key of the query must match
Match(doc, filters) ==
    /\ "category" \in DOMAIN filters =>
            /\ "category" \in DOMAIN doc
            /\ doc["category"] = filters["category"]
    /\ "price" \in DOMAIN filters =>
            /\ "price" \in DOMAIN doc
            /\ "gte" \in DOMAIN filters["price"] => doc["price"] >= filters["price"]["gte"]
            /\ "lte" \in DOMAIN filters["price"] => doc["price"] <= filters["price"]["lte"]
    /\ "or" \in DOMAIN filters =>
            \E i \in 1..Len(filters["or"]) : MatchRegexClause(doc, filters["or"][i])
    /\ "_id" \in DOMAIN filters => doc["_id"] = filters["_id"]

\* the documents of a collection as the _id index enumerates them
RECURSIVE GetCandidatesFrom(_, _)
GetCandidatesFrom(coll, ids) ==
    IF ids = {} THEN << >>
    ELSE LET m == CHOOSE x \in ids : \A y \in ids : x <= y
         IN  <<coll[m]>> \o GetCandidatesFrom(coll, ids \ {m})

GetCandidates(coll) == GetCandidatesFrom(coll, DOMAIN coll)

RECURSIVE SelectMatching(_, _)
SelectMatching(docs, filters) ==
    IF docs = << >> THEN << >>
    ELSE IF Match(Head(docs), filters)
         THEN <<Head(docs)>> \o SelectMatching(Tail(docs), filters)
         ELSE SelectMatching(Tail(docs), filters)

\* the comparator Cursor.exec hands to Array.sort
SortCompare(a, b, key, direction) ==
    direction * CompareThings(GetDotValue(a, key), GetDotValue(b, key))

\* x placed behind every element that does not compare greater (a stable sort)
RECURSIVE SortInsert(_, _, _, _)
SortInsert(x, sorted, key, direction) ==
    IF sorted = << >> THEN <<x>>
    ELSE IF SortCompare(Head(sorted), x, key, direction) <= 0
         THEN <<Head(sorted)>> \o SortInsert(x, Tail(sorted), key, direction)
         ELSE <<x>> \o sorted

RECURSIVE SortDocs(_, _, _)
SortDocs(docs, key, direction) ==
    IF docs = << >> THEN << >>
    ELSE SortInsert(docs[Len(docs)],
                    SortDocs(SubSeq(docs, 1, Len(docs) - 1), key, direction),
                    key, direction)

Min(a, b) == IF a < b THEN a ELSE b
Max(a, b) == IF a > b THEN a ELSE b

\* Array.prototype.slice(start, end)
Slice(arr, start, end) ==
    LET len  == Len(arr)
        from == IF start < 0 THEN Max(len + start, 0) ELSE Min(start, len)
        to   == IF end < 0 THEN Max(len + end, 0) ELSE Min(end, len)
    IN  SubSeq(arr, from + 1, to)

\* Cursor.exec with a sort: filter, sort, then slice(skip, skip + limit), where
\* a limit of 0 counts as no limit (this._limit || res.length)
CursorExec(coll, filters, key, direction, skipArg, limitArg) ==
    LET res   == SortDocs(SelectMatching(GetCandidates(coll), filters), key, direction)
        limit == IF limitArg # 0 THEN limitArg ELSE Len(res)
        skip  == IF skipArg # 0 THEN skipArg ELSE 0
    IN  Slice(res, skip, skip + limit)

\* Datastore.count(filters)
Count(coll, filters) == Len(SelectMatching(GetCandidates(coll), filters))

\* Datastore.findOne({ _id: id }): the document or null
FindOne(coll, id) == SelectMatching(GetCandidates(coll), [x \in {"_id"} |-> id])

\* a variant of Insert that stores the required fields only
InsertRequiredOnly(coll, id, doc) ==
    Ext(coll, id, Ext(Without(doc, "description"), "_id", id))

\* Datastore.insert(doc) under the fresh identifier id
Insert(coll, id, doc) == Ext(coll, id, Ext(doc, "_id", id))

\* a variant of UpdateSet without $set: the body replaces the document
UpdateReplace(coll, id, fields) ==
    IF id \in DOMAIN coll THEN Ext(coll, id, Ext(fields, "_id", id)) ELSE coll

\* Datastore.update({ _id: id }, { $set: fields }): the collection afterwards
UpdateSet(coll, id, fields) ==
    IF id \in DOMAIN coll THEN Ext(coll, id, Spread(coll[id], fields)) ELSE coll

\* a variant of Remove with an empty query: the first document goes
RemoveFirst(coll, id) ==
    IF id \in DOMAIN coll \/ coll = EmptyObj THEN Without(coll, id)
    ELSE Without(coll, CHOOSE x \in DOMAIN coll : \A y \in DOMAIN coll : x <= y)

\* Datastore.remove({ _id: id }): the collection afterwards
Remove(coll, id) == Without(coll, id)

\* the number of documents remove({ _id: id }) removes
NumRemoved(coll, id) == Count(coll, [x \in {"_id"} |-> id])

\* ------------------------------------------------------------------ fixId
\* product.id = product._id
fixId(doc) == Ext(doc, "id", doc["_id"])

\* --------------------------------------------------------- request inputs
\* bodies of POST /product: name, price and category required, description optional
ProductBodies ==
    { [name |-> <<"A">>, price |-> 0, category |-> <<"a">>],
      [name |-> <<"b">>, price |-> 1, category |-> <<"b">>, description |-> <<"B">>] }

\* bodies of PUT /product/:id: any subset of the four fields
UpdateBodies ==
    { EmptyObj,
      [price |-> 2, description |-> <<"a", "b">>] }

\* a set of query objects, each also with the optional parameter k given
WithOpt(queries, k, values) ==
    queries \cup { Ext(q, k, v) : q \in queries, v \in values }

Pages      == 1..MaxPage
Sizes      == 0..MaxSize
SortKeys   == {"price", "description"}
Categories == {<< >>, <<"b">>}
PriceBound == {1}
Searches   == {<<"a">>, <<"(">>}

\* querystrings of GET /product after the schema's defaults
ListQueries ==
    WithOpt(WithOpt(WithOpt(
        [page : Pages, size : Sizes, sortBy : SortKeys, order : {"asc", "desc"}],
        "category", Categories), "minPrice", PriceBound), "maxPrice", PriceBound)

\* querystrings of GET /product/search
SearchQueries == WithOpt(ListQueries, "search", Searches)

\* ------------------------------------------------------- product handlers
\* if (x): a string parameter that is given and not empty
Truthy(query, k) == k \in DOMAIN query /\ query[k] # << >>

\* a variant of ListFilters whose maxPrice clause replaces the price condition
ListFiltersMaxReplaces(query) ==
    LET f0 == EmptyObj
        f1 == IF Truthy(query, "category")
                THEN Ext(f0, "category", query["category"]) ELSE f0
        f2 == IF "minPrice" \in DOMAIN query
                THEN Ext(f1, "price", [gte |-> query["minPrice"]]) ELSE f1
    IN  IF "maxPrice" \in DOMAIN query
          THEN Ext(f2, "price", [lte |-> query["maxPrice"]]) ELSE f2

\* the filters object of GET /product
ListFilters(query) ==
    LET f0 == EmptyObj
        f1 == IF Truthy(query, "category")
                THEN Ext(f0, "category", query["category"]) ELSE f0
        f2 == IF "minPrice" \in DOMAIN query
                THEN Ext(f1, "price", [gte |-> query["minPrice"]]) ELSE f1
        f3 == IF "maxPrice" \in DOMAIN query
                THEN Ext(f2, "price",
                         Spread(IF "price" \in DOMAIN f2 THEN f2["price"] ELSE EmptyObj,
                                [lte |-> query["maxPrice"]]))
                ELSE f2
    IN  f3

\* the filters object of GET /product/search
SearchFilters(query) ==
    LET f3 == ListFilters(query)
    IN  IF Truthy(query, "search")
          THEN Ext(f3, "or", << [field |-> "name", regex |-> query["search"]],
                                [field |-> "description", regex |-> query["search"]] >>)
          ELSE f3

SortDirection(query) == IF query["order"] = "asc" THEN 1 ELSE 0 - 1

\* find(filters).sort(..).skip((page - 1) * size).limit(size).exec()
FindPage(coll, filters, query) ==
    CursorExec(coll, filters, query["sortBy"], SortDirection(query),
               (query["page"] - 1) * query["size"], query["size"])

\* products.forEach(fixId): every element gets its id
ForEachFixId(arr) == [i \in 1..Len(arr) |-> fixId(arr[i])]

\* GET /product
ListProducts ==
    /\ resp = NoResp
    /\ \E query \in ListQueries :
       LET filters == ListFilters(query)
           total   == Count(products, filters)
           found   == FindPage(products, filters, query)
       IN  resp' = [op |-> "ListProducts", query |-> query, status |-> 200,
                    total |-> total, products |-> found]
    /\ UNCHANGED <<products, orders, files, now, created, uploaded, handlers>>

\* GET /product/search
SearchProducts ==
    /\ resp = NoResp
    /\ \E query \in SearchQueries :
       IF Truthy(query, "search") /\ ~ValidRegExp(query["search"])
         THEN resp' = [op |-> "SearchProducts", query |-> query, status |-> 500]
         ELSE LET filters == SearchFilters(query)
                  total   == Count(products, filters)
                  found   == FindPage(products, filters, query)
              IN  resp' = [op |-> "SearchProducts", query |-> query, status |-> 200,
                           total |-> total, products |-> ForEachFixId(found)]
    /\ UNCHANGED <<products, orders, files, now, created, uploaded, handlers>>

\* GET /product/get/:id
GetProduct ==
    /\ resp = NoResp
    /\ \E id \in Ids :
       LET product == FindOne(products, id)
       IN  IF product = << >>
             THEN resp' = [op |-> "GetProduct", id |-> id, status |-> 404]
             ELSE resp' = [op |-> "GetProduct", id |-> id, status |-> 200,
                           body |-> fixId(product[1])]
    /\ UNCHANGED <<products, orders, files, now, created, uploaded, handlers>>

\* POST /product; the store picks an identifier no document has
CreateProduct ==
    /\ resp = NoResp
    /\ \E body \in ProductBodies, id \in Ids \ DOMAIN products :
          /\ products' = Insert(products, id, body)
          /\ resp' = [op |-> "CreateProduct", status |-> 201,
                      body |-> fixId(products'[id])]
          /\ created' = Ext(created, resp'.body["id"], body)
    /\ UNCHANGED <<orders, files, now, uploaded, handlers>>

\* PUT /product/:id
UpdateProduct(id, body) ==
    /\ resp = NoResp
    /\ products' = UpdateSet(products, id, body)
    /\ IF id \notin DOMAIN products'
         THEN resp' = [op |-> "UpdateProduct", id |-> id, fields |-> body, status |-> 404]
         ELSE resp' = [op |-> "UpdateProduct", id |-> id, fields |-> body, status |-> 200,
                       body |-> fixId(products'[id])]
    /\ created' = Without(created, id)
    /\ UNCHANGED <<orders, files, now, uploaded, handlers>>

\* DELETE /product/:id
DeleteProduct(id) ==
    /\ resp = NoResp
    /\ LET numRemoved == NumRemoved(products, id)
       IN  /\ products' = Remove(products, id)
           /\ IF numRemoved = 0
                THEN resp' = [op |-> "DeleteProduct", id |-> id, status |-> 404]
                ELSE resp' = [op |-> "DeleteProduct", id |-> id, status |-> 204]
    /\ created' = Without(created, id)
    /\ UNCHANGED <<orders, files, now, uploaded, handlers>>

\* the reply reaches the client, which may then send its next request
Deliver ==
    /\ resp # NoResp
    /\ resp' = NoResp
    /\ UNCHANGED <<products, orders, files, now, created, uploaded, handlers>>

\* ---------------------------------------------------------- order handlers
DigitChar(d) ==
    CASE d = 0 -> "0" [] d = 1 -> "1" [] d = 2 -> "2" [] d = 3 -> "3" [] d = 4 -> "4"
      [] d = 5 -> "5" [] d = 6 -> "6" [] d = 7 -> "7" [] d = 8 -> "8" [] d = 9 -> "9"

\* new Date().toISOString(): digits of fixed width, most significant first
ISOString(t) == <<DigitChar((t \div 10) % 10), DigitChar(t % 10)>>

\* bodies of POST /orders: customer and items (productId, quantity) required
OrderBodies ==
    { [customer |-> <<"a">>, items |-> << >>] }
    \cup { [customer |-> <<"a">>, items |-> <<[productId |-> 1, quantity |-> q]>>]
             : q \in 1..MaxQty }
    \cup { [customer |-> <<"b">>,
            items |-> <<[productId |-> 1, quantity |-> MaxQty],
                        [productId |-> 2, quantity |-> MaxQty + 1]>>] }

\* querystrings of GET /orders after the schema's defaults
OrderQueries == [page : Pages, size : Sizes]

UnitPrice == 10

\* a variant of TotalAmount that charges an existing product's own price
RECURSIVE TotalAmountAtProductPrice(_)
TotalAmountAtProductPrice(items) ==
    IF items = << >> THEN 0
    ELSE LET item == items[Len(items)]
             unit == IF item.productId \in DOMAIN products
                       THEN products[item.productId]["price"] ELSE UnitPrice
         IN  TotalAmountAtProductPrice(SubSeq(items, 1, Len(items) - 1))
             + item.quantity * unit

\* items.reduce((total, item) => total + item.quantity * 10, 0)
RECURSIVE TotalAmount(_)
TotalAmount(items) ==
    IF items = << >> THEN 0
    ELSE TotalAmount(SubSeq(items, 1, Len(items) - 1))
         + items[Len(items)].quantity * UnitPrice

\* what fixId returns: it has no return statement
fixIdReturn(doc) == Undefined

\* orders.map(fixId): the array of what fixId returns
MapFixId(arr) == [i \in 1..Len(arr) |-> fixIdReturn(arr[i])]

\* GET /orders
ListOrders ==
    /\ resp = NoResp
    /\ \E query \in OrderQueries :
       LET total == Count(orders, EmptyObj)
           found == CursorExec(orders, EmptyObj, "createdAt", 0 - 1,
                               (query["page"] - 1) * query["size"], query["size"])
       IN  resp' = [op |-> "ListOrders", query |-> query, status |-> 200,
                    total |-> total, orders |-> MapFixId(found)]
    /\ UNCHANGED <<products, orders, files, now, created, uploaded, handlers>>

\* GET /orders/:id
GetOrder ==
    /\ resp = NoResp
    /\ \E id \in Ids :
       LET order == FindOne(orders, id)
       IN  IF order = << >>
             THEN resp' = [op |-> "GetOrder", id |-> id, status |-> 404]
             ELSE resp' = [op |-> "GetOrder", id |-> id, status |-> 200,
                           body |-> fixId(order[1])]
    /\ UNCHANGED <<products, orders, files, now, created, uploaded, handlers>>

\* POST /orders; the store picks an identifier no document has
CreateOrder ==
    /\ resp = NoResp
    /\ \E order \in OrderBodies, id \in Ids \ DOMAIN orders :
       LET newOrder == [customer |-> order.customer, items |-> order.items,
                        totalAmount |-> TotalAmount(order.items),
                        status |-> "Pending", createdAt |-> ISOString(now)]
       IN  /\ orders' = Insert(orders, id, newOrder)
           /\ resp' = [op |-> "CreateOrder", request |-> order, status |-> 201,
                       body |-> fixId(orders'[id])]
    /\ UNCHANGED <<products, files, now, created, uploaded, handlers>>

\* DELETE /orders/:id: fixId(result) assigns a property on the number result,
\* a TypeError in strict mode, which the framework answers with 500
DeleteOrder ==
    /\ resp = NoResp
    /\ \E id \in Ids :
       LET result == NumRemoved(orders, id)
       IN  /\ orders' = Remove(orders, id)
           /\ IF result = 0
                THEN resp' = [op |-> "DeleteOrder", id |-> id, status |-> 404]
                ELSE resp' = [op |-> "DeleteOrder", id |-> id, status |-> 500]
    /\ UNCHANGED <<products, files, now, created, uploaded, handlers>>

\* the clock advances
Tick ==
    /\ now < MaxNow
    /\ now' = now + 1
    /\ UNCHANGED <<products, orders, files, resp, created, uploaded, handlers>>

\* --------------------------------------------------------- upload handlers
RECURSIVE Digits(_)
Digits(n) ==
    IF n < 10 THEN <<DigitChar(n)>>
    ELSE Digits(n \div 10) \o <<DigitChar(n % 10)>>

OriginalNames == { <<"a">>, <<"1", "-", "a">> }
Contents      == { <<0>>, <<1>> }

\* `${Date.now()}-${file.originalname}`
UniqueName(t, originalname) == Digits(t) \o <<"-">> \o originalname

UploadsPrefix == <<"/", "u", "p", "l", "o", "a", "d", "s", "/">>

\* the names a client may ask for
FileNames == { UniqueName(t, n) : t \in 0..MaxNow, n \in OriginalNames }

\* the sets of contents the client has sent under a file name
SentUnder(name) == IF name \in DOMAIN uploaded THEN uploaded[name] ELSE {}

\* the file name of a returned filePath, as the client takes it
FileNameOf(filePath) == SubSeq(filePath, Len(UploadsPrefix) + 1, Len(filePath))

\* POST /upload/file with a file part: multer stores it, the handler answers
UploadFile ==
    /\ resp = NoResp
    /\ \E originalname \in OriginalNames, content \in Contents :
       LET filename == UniqueName(now, originalname)
       IN  /\ files' = Ext(files, filename, content)
           /\ resp' = [op |-> "UploadFile", status |-> 200, content |-> content,
                       filePath |-> UploadsPrefix \o filename]
           /\ uploaded' = Ext(uploaded, FileNameOf(resp'.filePath),
                               SentUnder(FileNameOf(resp'.filePath)) \cup {content})
    /\ UNCHANGED <<products, orders, now, created, handlers>>

\* POST /upload/file without a file part
UploadNoFile ==
    /\ resp = NoResp
    /\ resp' = [op |-> "UploadFile", status |-> 400]
    /\ UNCHANGED <<products, orders, files, now, created, uploaded, handlers>>

\* GET /upload/uploads/:filename
RetrieveFile ==
    /\ resp = NoResp
    /\ \E filename \in FileNames :
          IF filename \notin DOMAIN files
            THEN resp' = [op |-> "RetrieveFile", filename |-> filename, status |-> 404]
            ELSE resp' = [op |-> "RetrieveFile", filename |-> filename, status |-> 200,
                          content |-> files[filename]]
    /\ UNCHANGED <<products, orders, files, now, created, uploaded, handlers>>

\* ------------------------------------------- handlers suspended at an await
\* Two requests are in flight at a time. A handler run stops at each await of
\* a store call; the store executes one call at a time, in the order issued.
Requests == {1, 2}

\* bodies of PUT /product/:id sent concurrently: two with disjoint fields
PutBodies ==
    { [price |-> 2],
      [description |-> <<"a", "b">>] }

\* handlers with request c set to the locals h
Suspend(c, h) == Ext(handlers, c, h)

\* PUT /product/:id arrives: the handler issues its one store call, update.
\* seen notes the document as stored at that moment, which the handler does
\* not read.
PutArrives(c) ==
    /\ c \notin DOMAIN handlers
    /\ \E id \in Ids, body \in PutBodies :
          handlers' = Suspend(c, [op |-> "UpdateProduct", pc |-> "update", id |-> id,
                                  fields |-> body,
                                  seen |-> IF id \in DOMAIN products
                                             THEN products[id] ELSE Undefined])
    /\ UNCHANGED <<products, orders, files, now, resp, created, uploaded>>

\* a variant of StoreAfterPut that writes back the document seen on arrival
\* with the body's fields set
StoreAfterReadModifyWrite(c) ==
    IF handlers[c].id \in DOMAIN products /\ handlers[c].seen # Undefined
      THEN Ext(products, handlers[c].id, Spread(handlers[c].seen, handlers[c].fields))
      ELSE products

\* the collection after request c's update({ _id: id }, { $set: body })
StoreAfterPut(c) == UpdateSet(products, handlers[c].id, handlers[c].fields)

\* the store executes the update of request c; the handler forms its reply
PutUpdates(c) ==
    /\ c \in DOMAIN handlers
    /\ handlers[c].pc = "update"
    /\ products' = StoreAfterPut(c)
    /\ LET h  == handlers[c]
           h1 == Ext(h, "pc", "replied")
       IN  IF h.id \notin DOMAIN products'
             THEN handlers' = Suspend(c, Ext(h1, "status", 404))
             ELSE handlers' = Suspend(c, Ext(Ext(h1, "status", 200),
                                             "body", fixId(products'[h.id])))
    /\ created' = Without(created, handlers[c].id)
    /\ UNCHANGED <<orders, files, now, resp, uploaded>>

\* GET /product or GET /product/search arrives: the handler builds its filters
\* (a bad pattern throws there) and issues count
ListArrives(c) ==
    /\ c \notin DOMAIN handlers
    /\ \/ \E query \in ListQueries :
             handlers' = Suspend(c, [op |-> "ListProducts", pc |-> "count",
                                     query |-> query, filters |-> ListFilters(query)])
       \/ \E query \in SearchQueries :
             IF Truthy(query, "search") /\ ~ValidRegExp(query["search"])
               THEN handlers' = Suspend(c, [op |-> "SearchProducts", pc |-> "replied",
                                            query |-> query, status |-> 500])
               ELSE handlers' = Suspend(c, [op |-> "SearchProducts", pc |-> "count",
                                            query |-> query,
                                            filters |-> SearchFilters(query)])
    /\ UNCHANGED <<products, orders, files, now, resp, created, uploaded>>

\* the store executes count(filters); the handler issues find
ListCounts(c) ==
    /\ c \in DOMAIN handlers
    /\ handlers[c].pc = "count"
    /\ handlers' = Suspend(c, Ext(Ext(handlers[c], "pc", "find"),
                                  "total", Count(products, handlers[c].filters)))
    /\ UNCHANGED <<products, orders, files, now, resp, created, uploaded>>

\* the store executes find(filters).sort().skip().limit(); the handler forms
\* its reply from total and the page
ListFinds(c) ==
    /\ c \in DOMAIN handlers
    /\ handlers[c].pc = "find"
    /\ LET h     == handlers[c]
           found == FindPage(products, h.filters, h.query)
           page  == IF h.op = "SearchProducts" THEN ForEachFixId(found) ELSE found
       IN  handlers' = Suspend(c, Ext(Ext(Ext(h, "pc", "replied"), "status", 200),
                                      "products", page))
    /\ UNCHANGED <<products, orders, files, now, resp, created, uploaded>>

\* the reply of request c is sent
ReplySent(c) ==
    /\ c \in DOMAIN handlers
    /\ handlers[c].pc = "replied"
    /\ handlers' = Without(handlers, c)
    /\ UNCHANGED <<products, orders, files, now, resp, created, uploaded>>

Init ==
    /\ products = EmptyObj
    /\ orders = EmptyObj
    /\ files = EmptyObj
    /\ now = 0
    /\ resp = NoResp
    /\ created = EmptyObj
    /\ uploaded = EmptyObj
    /\ handlers = EmptyObj

NextProduct ==
    \/ ListProducts
    \/ SearchProducts
    \/ GetProduct
    \/ CreateProduct
    \/ \E id \in Ids, body \in UpdateBodies : UpdateProduct(id, body)
    \/ \E id \in Ids : DeleteProduct(id)
    \/ Deliver

SpecProduct == Init /\ [][NextProduct]_vars

NextOrders ==
    \/ ListOrders
    \/ GetOrder
    \/ CreateOrder
    \/ DeleteOrder
    \/ Tick
    \/ Deliver

SpecOrders == Init /\ [][NextOrders]_vars

\* creation and deletion in both collections
NextCrud ==
    \/ CreateProduct
    \/ \E id \in Ids : DeleteProduct(id)
    \/ CreateOrder
    \/ DeleteOrder
    \/ Deliver

SpecCrud == Init /\ [][NextCrud]_vars

NextUpload ==
    \/ UploadFile
    \/ UploadNoFile
    \/ RetrieveFile
    \/ Tick
    \/ Deliver

SpecUpload == Init /\ [][NextUpload]_vars

\* concurrent partial updates of products
NextPut ==
    \/ CreateProduct
    \/ Deliver
    \/ \E c \in Requests : PutArrives(c)
    \/ \E c \in Requests : PutUpdates(c)
    \/ \E c \in Requests : ReplySent(c)

SpecPut == Init /\ [][NextPut]_vars

\* a product listing or search next to creations and deletions
NextList ==
    \/ CreateProduct
    \/ \E id \in Ids : DeleteProduct(id)
    \/ Deliver
    \/ ListArrives(1)
    \/ ListCounts(1)
    \/ ListFinds(1)
    \/ ReplySent(1)

SpecList == Init /\ [][NextList]_vars

\* ================================================================== claims
\* the stored form of a response document: without the external id
StoredForm(doc) == Without(doc, "id")

StoredForms(docs) == [i \in 1..Len(docs) |-> StoredForm(docs[i])]

\* a response document carries id, equal to its store identifier
HasExternalId(doc) ==
    /\ "id" \in DOMAIN doc
    /\ "_id" \in DOMAIN doc
    /\ doc["id"] = doc["_id"]

IsProductPage == resp.op \in {"ListProducts", "SearchProducts"} /\ resp.status = 200

\* the filters the handler of the response at hand builds from its query
FiltersOf(r) ==
    IF r.op = "SearchProducts" THEN SearchFilters(r.query) ELSE ListFilters(r.query)

\* the full filtered result set of a product page response, sorted as requested
FullSorted(r) ==
    SortDocs(SelectMatching(GetCandidates(products), FiltersOf(r)),
             r.query["sortBy"], SortDirection(r.query))

\* positions (P-1)*N .. P*N-1 (counted from 0) of a sequence, as far as they exist
PositionsSlice(full, P, N) ==
    LET lo == (P - 1) * N
        hi == Min(P * N - 1, Len(full) - 1)
    IN  [i \in 1..Max(hi - lo + 1, 0) |-> full[lo + i]]

\* C1: every document of a response that carries stored documents (single
\* documents and the elements of list responses, products and orders) has an
\* external id equal to its internal store identifier.
C1_ResponseDocumentsCarryId ==
    /\ resp.op \in {"GetProduct", "CreateProduct", "UpdateProduct", "GetOrder", "CreateOrder"}
         /\ resp.status \in {200, 201}
       => HasExternalId(resp.body)
    /\ IsProductPage
       => \A i \in 1..Len(resp.products) : HasExternalId(resp.products[i])
    /\ resp.op = "ListOrders"
       => \A i \in 1..Len(resp.orders) : HasExternalId(resp.orders[i])

\* C2: DELETE /orders/:id for an id present in the collection removes the order
\* and answers 204; 404 is answered only when nothing was removed.
C2_DeleteExistingOrderAnswers204 ==
    [][ resp = NoResp /\ resp'.op = "DeleteOrder"
        => IF resp'.id \in DOMAIN orders
             THEN resp'.status = 204 /\ resp'.id \notin DOMAIN orders'
             ELSE resp'.status = 404 ]_vars

\* C3: a product List or Search response for size N and page P has at most N
\* products, and they are positions (P-1)*N .. P*N-1 of the full filtered
\* result set sorted on sortBy in the requested order.
C3_PageIsSliceOfSortedResult ==
    IsProductPage
    => /\ Len(resp.products) <= resp.query["size"]
       /\ StoredForms(resp.products)
            = PositionsSlice(FullSorted(resp), resp.query["page"], resp.query["size"])

\* C4: an Update of an existing product answers 200 with the updated document,
\* overwrites exactly the fields of the body and leaves every other field of the
\* product, every other product and the orders as they were.
C4_UpdateOverwritesOnlySuppliedFields ==
    [][ resp = NoResp /\ resp'.op = "UpdateProduct" /\ resp'.id \in DOMAIN products
        => LET id     == resp'.id
               fields == resp'.fields
               before == products[id]
           IN  /\ resp'.status = 200
               /\ DOMAIN products' = DOMAIN products
               /\ \A other \in DOMAIN products \ {id} : products'[other] = products[other]
               /\ DOMAIN products'[id] = DOMAIN before \cup DOMAIN fields
               /\ \A k \in DOMAIN fields : products'[id][k] = fields[k]
               /\ \A k \in DOMAIN before \ DOMAIN fields : products'[id][k] = before[k]
               /\ StoredForm(resp'.body) = products'[id]
               /\ orders' = orders ]_vars

\* C4 witness: an update that supplied price changed it while the name the
\* product was created with is still there, next to another product.
C4_Witness ==
    /\ resp.op = "UpdateProduct"
    /\ resp.status = 200
    /\ DOMAIN resp.fields = {"price", "description"}
    /\ resp.body["price"] = 2
    /\ resp.body["name"] = <<"A">>
    /\ resp.body["category"] = <<"a">>
    /\ Cardinality(DOMAIN products) = 2

\* C5: deleting an id that is not in the collection answers 404 and leaves both
\* collections as they were, for products and for orders.
C5_DeleteAbsentIdAnswers404AndChangesNothing ==
    [][ resp = NoResp
        => /\ resp'.op = "DeleteProduct" /\ resp'.id \notin DOMAIN products
              => resp'.status = 404 /\ products' = products /\ orders' = orders
           /\ resp'.op = "DeleteOrder" /\ resp'.id \notin DOMAIN orders
              => resp'.status = 404 /\ products' = products /\ orders' = orders ]_vars

\* C5 witness: a delete of an absent order id was answered 404 while both
\* collections hold documents.
C5_Witness ==
    /\ resp.op = "DeleteOrder"
    /\ resp.status = 404
    /\ resp.id \notin DOMAIN orders
    /\ orders # EmptyObj
    /\ products # EmptyObj

ProductFields == {"name", "price", "category", "description"}

\* C6: a GET by the id returned at creation, with no update or delete of that id
\* since, answers 200 with that id and with exactly the posted fields.
C6_CreatedProductReadsBack ==
    resp.op = "GetProduct" /\ resp.id \in DOMAIN created
    => /\ resp.status = 200
       /\ "id" \in DOMAIN resp.body
       /\ resp.body["id"] = resp.id
       /\ \A k \in ProductFields :
            /\ k \in DOMAIN resp.body <=> k \in DOMAIN created[resp.id]
            /\ k \in DOMAIN resp.body => resp.body[k] = created[resp.id][k]

\* C6 witness: a product posted with a description was read back.
C6_Witness ==
    /\ resp.op = "GetProduct"
    /\ resp.id \in DOMAIN created
    /\ resp.status = 200
    /\ "description" \in DOMAIN resp.body

\* C7 as stated: every returned product has the requested category when
\* category is given, and a price within the bounds that are given.
C7_ReturnedProductsSatisfyGivenFilters ==
    IsProductPage
    => \A i \in 1..Len(resp.products) :
         LET doc == resp.products[i]
             q   == resp.query
         IN  /\ "category" \in DOMAIN q => doc["category"] = q["category"]
             /\ "minPrice" \in DOMAIN q => doc["price"] >= q["minPrice"]
             /\ "maxPrice" \in DOMAIN q => doc["price"] <= q["maxPrice"]

\* C7 as amended: every returned product has the requested category when a
\* non-empty category is given, and a price within the bounds that are given.
C7_ReturnedProductsSatisfyNonEmptyFilters ==
    IsProductPage
    => \A i \in 1..Len(resp.products) :
         LET doc == resp.products[i]
             q   == resp.query
         IN  /\ "category" \in DOMAIN q /\ q["category"] # << >>
                => doc["category"] = q["category"]
             /\ "minPrice" \in DOMAIN q => doc["price"] >= q["minPrice"]
             /\ "maxPrice" \in DOMAIN q => doc["price"] <= q["maxPrice"]

\* C7 witness: a search with category and both price bounds returned a product
\* while the collection holds a product the filters exclude.
C7_Witness ==
    /\ IsProductPage
    /\ resp.op = "SearchProducts"
    /\ {"category", "minPrice", "maxPrice"} \subseteq DOMAIN resp.query
    /\ resp.query["category"] # << >>
    /\ Len(resp.products) = 1
    /\ Cardinality(DOMAIN products) = 2

RECURSIVE SumQuantities(_)
SumQuantities(items) ==
    IF items = << >> THEN 0 ELSE Head(items).quantity + SumQuantities(Tail(items))

\* C8: a created order's totalAmount, in the response and in the store, is 10
\* times the sum of its items' quantities, whatever products exist and cost.
C8_TotalIsTenTimesQuantities ==
    /\ \A id \in DOMAIN orders :
          orders[id]["totalAmount"] = 10 * SumQuantities(orders[id]["items"])
    /\ resp.op = "CreateOrder"
       => /\ resp.body["totalAmount"] = 10 * SumQuantities(resp.request.items)
          /\ resp.body["_id"] \in DOMAIN orders
          /\ orders[resp.body["_id"]]["items"] = resp.request.items
          /\ resp.request.items = << >> => resp.body["totalAmount"] = 0

\* C8 witness: quantities 2 and 3 gave 50, the first item naming a product whose
\* price is not 10 and the second a product that does not exist.
C8_Witness ==
    /\ resp.op = "CreateOrder"
    /\ Len(resp.request.items) = 2
    /\ resp.request.items[1].quantity = 2
    /\ resp.request.items[2].quantity = 3
    /\ resp.body["totalAmount"] = 50
    /\ resp.request.items[1].productId \in DOMAIN products
    /\ products[resp.request.items[1].productId]["price"] # 10
    /\ resp.request.items[2].productId \notin DOMAIN products

\* C9: an order List response has total equal to the number of stored orders,
\* and its orders are the stored orders at offset (page-1)*size, at most size of
\* them, ordered by createdAt descending.
C9_OrderPageIsSliceOfStoredOrders ==
    resp.op = "ListOrders"
    => /\ resp.total = Cardinality(DOMAIN orders)
       /\ Len(resp.orders) <= resp.query["size"]
       /\ StoredForms(resp.orders)
            = PositionsSlice(SortDocs(GetCandidates(orders), "createdAt", 0 - 1),
                             resp.query["page"], resp.query["size"])

\* C10: a retrieval by the file name of a returned filePath answers with exactly
\* the content sent in that upload, whatever was uploaded in between.
C10_RetrieveReturnsWhatWasUploaded ==
    resp.op = "RetrieveFile"
    => \A content \in SentUnder(resp.filename) :
          resp.status = 200 /\ resp.content = content

\* request c has been answered 200 to its partial update
PutAnswered(c) ==
    /\ c \in DOMAIN handlers
    /\ handlers[c].op = "UpdateProduct"
    /\ handlers[c].pc = "replied"
    /\ handlers[c].status = 200

\* the store executes request c's update in this step, on a document that was
\* there when the request arrived
PutUpdatesExisting(c) ==
    /\ c \in DOMAIN handlers
    /\ handlers[c].op = "UpdateProduct"
    /\ handlers[c].pc = "update"
    /\ handlers[c].seen # Undefined
    /\ c \in DOMAIN handlers'
    /\ handlers'[c].pc = "replied"

\* the document lacks a field of the body, or holds another value for it
LacksChange(doc, fields) ==
    \E k \in DOMAIN fields : k \notin DOMAIN doc \/ doc[k] # fields[k]

\* C11 as stated: a partial update is a read-modify-write, so what it stores is
\* the document as it was when the request arrived with the body's fields set,
\* and a change another request made to that document in between is lost.
C11_UpdateWritesBackWhatItRead ==
    [][ \A c \in Requests :
          PutUpdatesExisting(c)
          => products'[handlers[c].id] = Spread(handlers[c].seen, handlers[c].fields) ]_vars

\* C11 as amended: when two requests in flight together have updated the same
\* product with disjoint fields, the product holds the fields of both.
C11_ConcurrentUpdatesBothSurvive ==
    \A c, d \in Requests :
        /\ c # d
        /\ PutAnswered(c)
        /\ PutAnswered(d)
        /\ handlers[c].id = handlers[d].id
        /\ DOMAIN handlers[c].fields \cap DOMAIN handlers[d].fields = {}
        => /\ handlers[c].id \in DOMAIN products
           /\ ~LacksChange(products[handlers[c].id], handlers[c].fields)
           /\ ~LacksChange(products[handlers[c].id], handlers[d].fields)

\* C11 witness: two updates of one product with disjoint fields were both
\* answered, each having arrived before the other's change was stored.
C11_Witness ==
    /\ PutAnswered(1)
    /\ PutAnswered(2)
    /\ handlers[1].id = handlers[2].id
    /\ DOMAIN handlers[1].fields \cap DOMAIN handlers[2].fields = {}
    /\ handlers[1].seen # Undefined
    /\ handlers[2].seen # Undefined
    /\ LacksChange(handlers[1].seen, handlers[2].fields)
    /\ LacksChange(handlers[2].seen, handlers[1].fields)

\* C12: the total of a product List or Search response is the number of matching
\* documents in the state its page is read from, and the page has no more
\* elements than total, also when creations and deletions run in between.
C12_TotalAndPageDescribeOneState ==
    [][ \A c \in Requests :
          /\ c \in DOMAIN handlers
          /\ handlers[c].pc = "find"
          /\ c \in DOMAIN handlers'
          /\ handlers'[c].pc = "replied"
          => /\ handlers'[c].total = Count(products, handlers[c].filters)
             /\ Len(handlers'[c].products) <= handlers'[c].total ]_vars

====
